---- MODULE Spec2Model ----
(***************************************************************************)
(* Model of the Shadowrun randomizer web front end: web_interface.js (the  *)
(* UI context: store, codec, ROM validator, event handlers) and            *)
(* web_worker.js (the worker context: bootstrap and job dispatcher).       *)
(*                                                                         *)
(* Representation.  A Uint8Array is a record [length, nz]: its length and  *)
(* the function from the (0-based) indices of its non-zero bytes to those  *)
(* bytes; every other index below length holds 0.  A Base64 text is a      *)
(* record [length, nz] in the same way, over one-character strings, with   *)
(* "A" (alphabet[0], the encoding of six zero bits) as the character that  *)
(* is left out.  This keeps a 1,048,576-byte image at its true size.       *)
(* Other strings (the seed text, argv entries) are sequences of            *)
(* one-character strings or TLA+ strings.                                  *)
(***************************************************************************)
EXTENDS Integers, Sequences, FiniteSets, TLC

VARIABLES
    \* ---- UI context (web_interface.js) ----
    store,             \* localStorage under shadowrun_randomizer___rom_base64: NoItem or Item(text)
    seed,              \* value of the #seed input
    status,            \* #statusMessage / #statusIcon: [message, attempt, textClass]
    fileButton,        \* #fileButton: [class, innerText]
    generateDisabled,  \* #generate.disabled
    generating,        \* TRUE when the spinner is shown and #generateText is "Generating..."
    reads,             \* changeFileName calls suspended at `await fileObject.arrayBuffer()`
    \* ---- messages in flight ----
    toWorker,          \* worker.postMessage requests not yet delivered
    toUI,              \* self.postMessage results not yet delivered
    \* ---- worker context (web_worker.js) ----
    boot,              \* position of loadPyodideAndFiles / state of pyodideReadyPromise
    waiting,           \* runRandomizer calls suspended at `await pyodideReadyPromise`
    pyodide,           \* the hosted runtime: [fs (names), rom (content of shadowrun.sfc), mockArgv]
    \* ---- history ----
    posted,            \* number of requests posted so far (request ids are 1..posted)
    handled,           \* ids of the results downloadSeed has handled, in order
    thrown,            \* the exception the last handler to finish ended with, or "none"
    lastFile,          \* the user's most recent file action: [action, file]
    \* ---- pure-function harness ----
    fpc,    \* position of the harness ("off" in Spec)
    farg,   \* its input
    fret    \* its output

uivars == <<store, seed, status, fileButton, generateDisabled, generating, reads>>
chvars == <<toWorker, toUI>>
wkvars == <<boot, waiting, pyodide>>
hvars == <<posted, handled, thrown, lastFile>>
fvars == <<fpc, farg, fret>>
vars == <<uivars, chvars, wkvars, hvars, fvars>>

-----------------------------------------------------------------------------
(* Bounds of the model *)

MaxLen == 4          \* longest byte sequence enumerated densely for the codec
MaxSeedLen == 2      \* longest seed text the user types
MaxJobs == 2         \* requests posted in one session
MaxReads == 1        \* file reads pending at once
MaxNameLen == 4      \* longest output name enumerated densely for the packager
MaxAttempt == 2      \* largest attempt count the script reports

-----------------------------------------------------------------------------
(* Uint8Array helpers *)

\* localStorage under the one key the program uses: no item, or one text
NoItem == {}
Item(text) == {text}
\* storageWrapper.getItem("rom_base64") when it is not null
getItem(items) == CHOOSE text \in items : TRUE

ByteAt(bytes, i) == IF i \in DOMAIN bytes.nz THEN bytes.nz[i] ELSE 0

\* new Uint8Array built from a dense sequence of byte values
MkBytes(seq) ==
    [length |-> Len(seq),
     nz     |-> [i \in {j \in 0..(Len(seq) - 1) : seq[j + 1] # 0} |-> seq[i + 1]]]

CharAt(text, j) == IF j \in DOMAIN text.nz THEN text.nz[j] ELSE "A"

-----------------------------------------------------------------------------
(* web_interface.js: bytesToBase64 *)

alphabet ==
    << "A","B","C","D","E","F","G","H","I","J","K","L","M",
       "N","O","P","Q","R","S","T","U","V","W","X","Y","Z",
       "a","b","c","d","e","f","g","h","i","j","k","l","m",
       "n","o","p","q","r","s","t","u","v","w","x","y","z",
       "0","1","2","3","4","5","6","7","8","9","+","/", "=" >>

\* alphabet.length - 1
PADDING_INDEX == Len(alphabet) - 1

\* Math.ceil(n / 3)
Ceil3(n) == (n + 2) \div 3

\* Base64Value with the third byte's two high bits never OR-ed into the
\* third output value (line 40 left out)
Base64ValueLostBits(bytes, i, r) ==
    LET n  == bytes.length
        b0 == ByteAt(bytes, 3*i + 0)
        b1 == ByteAt(bytes, 3*i + 1)
        b2 == ByteAt(bytes, 3*i + 2)
    IN  CASE r = 0 -> b0 \div 4
          [] r = 1 -> (b0 % 4) * 16 + (IF 3*i + 1 < n THEN b1 \div 16 ELSE 0)
          [] r = 2 -> IF 3*i + 1 < n THEN (b1 % 16) * 4 ELSE 64
          [] r = 3 -> IF 3*i + 2 < n THEN b2 % 64 ELSE 64

\* The value stored in base64[4*i + r] by one pass of the loop, before the
\* conversion to a character.  x & 0b11111100 >> 2 is x \div 4, and so on;
\* |= joins disjoint bit fields, so it is a sum.
Base64Value(bytes, i, r) ==
    LET n  == bytes.length
        b0 == ByteAt(bytes, 3*i + 0)
        b1 == ByteAt(bytes, 3*i + 1)
        b2 == ByteAt(bytes, 3*i + 2)
    IN  CASE r = 0 -> b0 \div 4
          [] r = 1 -> (b0 % 4) * 16 + (IF 3*i + 1 < n THEN b1 \div 16 ELSE 0)
          [] r = 2 -> IF 3*i + 1 < n
                        THEN (b1 % 16) * 4 + (IF 3*i + 2 < n THEN b2 \div 64 ELSE 0)
                        ELSE PADDING_INDEX
          [] r = 3 -> IF 3*i + 2 < n THEN b2 % 64 ELSE PADDING_INDEX

\* base64[4*i + r] = alphabet[base64[4*i + r]]
Base64Char(bytes, j) == alphabet[Base64Value(bytes, j \div 4, j % 4) + 1]

\* The groups whose four characters are not all "A": those holding a
\* non-zero byte, and the last one (the only one that can be padded).
TouchedGroups(bytes) ==
    {k \div 3 : k \in DOMAIN bytes.nz}
        \cup (IF bytes.length > 0 THEN {Ceil3(bytes.length) - 1} ELSE {})

bytesToBase64(bytes) ==
    LET cand == {4*i + r : i \in TouchedGroups(bytes), r \in 0..3}
    IN  [length |-> 4 * Ceil3(bytes.length),
         nz     |-> [j \in {c \in cand : Base64Char(bytes, c) # "A"}
                        |-> Base64Char(bytes, j)]]

-----------------------------------------------------------------------------
(* web_interface.js: base64ToBytes = atob, then the code point of each     *)
(* character of the binary string.  atob is the browser's forgiving        *)
(* Base64 decoder: it strips one or two trailing "=" from a text whose     *)
(* length is a multiple of 4, rejects a remaining length of 1 mod 4 and    *)
(* any character outside the 64-symbol alphabet, and turns each 6-bit      *)
(* group of four into three bytes, dropping the left-over bits.            *)

InvalidCharacterError == "InvalidCharacterError"

IndexOf(ch) == CHOOSE v \in 0..PADDING_INDEX : alphabet[v + 1] = ch

\* number of trailing "=" that atob removes
Stripped(text) ==
    IF text.length % 4 # 0 \/ text.length = 0 THEN 0
    ELSE IF CharAt(text, text.length - 1) # "=" THEN 0
    ELSE IF CharAt(text, text.length - 2) # "=" THEN 1
    ELSE 2

atobFails(text) ==
    LET m == text.length - Stripped(text)
    IN  \/ m % 4 = 1
        \/ \E j \in DOMAIN text.nz : j < m /\ text.nz[j] = "="

\* byte k of the decoded data
DecodedByte(text, k) ==
    LET g  == k \div 3
        c0 == IndexOf(CharAt(text, 4*g + 0))
        c1 == IndexOf(CharAt(text, 4*g + 1))
        c2 == IndexOf(CharAt(text, 4*g + 2))
        c3 == IndexOf(CharAt(text, 4*g + 3))
    IN  CASE k % 3 = 0 -> c0 * 4 + c1 \div 16
          [] k % 3 = 1 -> (c1 % 16) * 16 + c2 \div 4
          [] k % 3 = 2 -> (c2 % 4) * 64 + c3

base64ToBytes(text) ==
    IF atobFails(text) THEN InvalidCharacterError
    ELSE
        LET m    == text.length - Stripped(text)
            n    == 3 * (m \div 4) + (IF m % 4 = 0 THEN 0 ELSE (m % 4) - 1)
            cand == {k \in {3*(j \div 4) + p : j \in DOMAIN text.nz, p \in 0..2} : k < n}
        IN  [length |-> n,
             nz     |-> [k \in {c \in cand : DecodedByte(text, c) # 0}
                            |-> DecodedByte(text, k)]]

-----------------------------------------------------------------------------
(* web_interface.js: isValidROM *)

ROM_LENGTH == 1048576
NAME_START == 32704          \* 0x7FC0
NAME_END == 32725            \* 0x7FD5 (exclusive end of the slice)
CHECKSUM_LO == 32734         \* 0x7FDE
CHECKSUM_HI == 32735         \* 0x7FDF
goodChecksum == 63540        \* 0xF834

\* "SHADOWRUN            " as UTF-16 code units (what != compares)
goodName ==
    << 83, 72, 65, 68, 79, 87, 82, 85, 78,
       32, 32, 32, 32, 32, 32, 32, 32, 32, 32, 32, 32 >>

\* romBytes.slice(start, end): indices clamped to the length
Slice(bytes, start, end) ==
    LET lo == IF start < bytes.length THEN start ELSE bytes.length
        hi == IF end < bytes.length THEN end ELSE bytes.length
    IN  [k \in 1..(IF hi > lo THEN hi - lo ELSE 0) |-> ByteAt(bytes, lo + k - 1)]

\* String.fromCharCode(...romBytes.slice(0x7FC0, 0x7FD5))
RomName(romBytes) == Slice(romBytes, NAME_START, NAME_END)

\* romBytes[0x7FDE] + (romBytes[0x7FDF] << 8)
RomChecksum(romBytes) ==
    ByteAt(romBytes, CHECKSUM_LO) + ByteAt(romBytes, CHECKSUM_HI) * 256

\* isValidROM without the checksum test
isValidROMNoChecksum(romBytes) ==
    IF romBytes.length # ROM_LENGTH THEN FALSE
    ELSE IF RomName(romBytes) # goodName THEN FALSE
    ELSE TRUE

isValidROM(romBytes) ==
    IF romBytes.length # ROM_LENGTH THEN FALSE
    ELSE IF RomName(romBytes) # goodName THEN FALSE
    ELSE IF RomChecksum(romBytes) # goodChecksum THEN FALSE
    ELSE TRUE

-----------------------------------------------------------------------------
(* Strings as sequences of one-character strings *)

Digits == {"0", "1", "2", "3", "4", "5", "6", "7", "8", "9"}
DigitChars == <<"0", "1", "2", "3", "4", "5", "6", "7", "8", "9">>

IsSpace(ch) == ch = " "

RECURSIVE TrimStart(_)
TrimStart(str) ==
    IF str # <<>> /\ IsSpace(Head(str)) THEN TrimStart(Tail(str)) ELSE str

RECURSIVE TrimEnd(_)
TrimEnd(str) ==
    IF str # <<>> /\ IsSpace(str[Len(str)])
        THEN TrimEnd(SubSeq(str, 1, Len(str) - 1))
        ELSE str

\* String.prototype.trim
Trim(str) == TrimEnd(TrimStart(str))

\* integerRegexTest with the pattern ^[0-9]*$, which the empty string matches
integerRegexTestStar(str) == \A k \in 1..Len(str) : str[k] \in Digits

\* new RegExp("^[0-9]+$").test(str)
integerRegexTest(str) == Len(str) >= 1 /\ \A k \in 1..Len(str) : str[k] \in Digits

\* String(n) for an integer n >= 0
RECURSIVE ToDecimal(_)
ToDecimal(n) ==
    IF n < 10 THEN <<DigitChars[n + 1]>>
    ELSE ToDecimal(n \div 10) \o <<DigitChars[(n % 10) + 1]>>

-----------------------------------------------------------------------------
(* Inputs: what the user types and selects *)

SeedChars == {"7", " ", "a"}

RECURSIVE TextsUpTo(_)
TextsUpTo(n) ==
    IF n = 0 THEN {<<>>}
    ELSE LET shorter == TextsUpTo(n - 1)
         IN  shorter \cup {Append(t, ch) : t \in shorter, ch \in SeedChars}

SeedTexts == TextsUpTo(MaxSeedLen)

\* values Math.trunc(Math.random() * 2**32) takes in the model
RandomSeeds == {7, 77}

Patch(bytes, i, v) ==
    IF i >= bytes.length THEN bytes
    ELSE [length |-> bytes.length,
          nz     |-> [k \in ((DOMAIN bytes.nz) \ {i}) \cup (IF v = 0 THEN {} ELSE {i})
                         |-> IF k = i THEN v ELSE bytes.nz[k]]]

\* the first n bytes, zero-filled beyond the old length
Resize(bytes, n) ==
    [length |-> n,
     nz     |-> [k \in {j \in DOMAIN bytes.nz : j < n} |-> bytes.nz[k]]]

\* A 1,048,576-byte image with the expected name and checksum fields (and
\* a few other non-zero bytes).
GoodROM ==
    [length |-> ROM_LENGTH,
     nz     |-> [k \in (NAME_START..(NAME_END - 1))
                        \cup {0, 1, CHECKSUM_LO, CHECKSUM_HI, ROM_LENGTH - 1}
                   |-> IF k \in NAME_START..(NAME_END - 1) THEN goodName[k - NAME_START + 1]
                       ELSE IF k = CHECKSUM_LO THEN 52        \* 0x34
                       ELSE IF k = CHECKSUM_HI THEN 248       \* 0xF8
                       ELSE IF k = 0 THEN 120
                       ELSE IF k = 1 THEN 24
                       ELSE 255]]

\* the same image with one byte of the checksum field changed
BadROM == Patch(GoodROM, CHECKSUM_HI, 249)

\* the files the user can pick in the file dialog
Files == {GoodROM, BadROM}

\* how the user has left the two checkboxes (#itemDuplication, #spoilerLog)
\* when clicking #generate; every combination is covered by SpecArgv
FlagChoices == {<<TRUE, FALSE>>}

-----------------------------------------------------------------------------
(* web_interface.js: updateStatusMessage, updateFileButton *)

\* the state of #statusMessage and #statusIcon after updateStatusMessage(message, textClass)
StatusOf(message, attempt, textClass) ==
    [message |-> message, attempt |-> attempt, textClass |-> textClass]

NoStatus == StatusOf("", 0, "")

\* what updateFileButton leaves in #fileButton, given the stored item
FileButtonFor(items) ==
    IF items # NoItem
        THEN IF isValidROM(base64ToBytes(getItem(items)))
                THEN [class |-> "btn-success", innerText |-> "Valid ROM selected"]
                ELSE [class |-> "btn-danger", innerText |-> "Invalid ROM selected"]
        ELSE [class |-> "btn-warning", innerText |-> "No ROM selected"]

\* what updateFileButton leaves in #generate.disabled
GenerateDisabledFor(items) ==
    IF items # NoItem
        THEN IF isValidROM(base64ToBytes(getItem(items))) THEN FALSE ELSE TRUE
        ELSE TRUE

updateFileButton(items) ==
    /\ fileButton' = FileButtonFor(items)
    /\ generateDisabled' = GenerateDisabledFor(items)

-----------------------------------------------------------------------------
(* web_interface.js: the event handlers *)

QuotaExceededError == "QuotaExceededError"

\* the user's most recent action on the image: "none" so far in this visit,
\* "select" of a file, "clear", or "failed" once a selection's write has
\* failed
FileAction(action, file) == [action |-> action, file |-> file]

\* what storageWrapper.setItem can do: store the value, fail for lack of
\* room, or (like the encoder, on a file too large for one string) throw
\* something else
SetItemOutcomes == {"ok", QuotaExceededError, "RangeError"}

\* changeFileName up to `await fileObject.arrayBuffer()`.  fileList is the
\* file input's list: empty, or the one chosen file.
changeFileName(fileList) ==
    /\ status' = NoStatus
    /\ IF Len(fileList) > 0
         THEN /\ Len(reads) < MaxReads
              /\ reads' = Append(reads, fileList[1])
              /\ lastFile' = FileAction("select", {fileList[1]})
         ELSE /\ reads' = reads
              /\ UNCHANGED lastFile
    /\ thrown' = "none"
    /\ UNCHANGED <<store, seed, fileButton, generateDisabled, generating>>
    /\ UNCHANGED <<chvars, wkvars, posted, handled, fvars>>

\* changeFileNameResume without the removeItem of line 144: a failed write
\* leaves the record of the earlier selection in place
changeFileNameResumeKeepsOld(k, outcome) ==
    /\ k \in 1..Len(reads)
    /\ LET fileBytes == reads[k]
       IN  CASE outcome = "ok" ->
                  /\ store' = Item(bytesToBase64(fileBytes))
                  /\ updateFileButton(store')
                  /\ thrown' = "none"
                  /\ UNCHANGED status
             [] outcome = QuotaExceededError ->
                  /\ store' = store
                  /\ status' = StatusOf("Could not store ROM: localStorage quota exceeded",
                                        0, "danger")
                  /\ updateFileButton(store')
                  /\ thrown' = "none"
             [] OTHER ->
                  /\ thrown' = outcome
                  /\ UNCHANGED <<store, status, fileButton, generateDisabled>>
    /\ reads' = SubSeq(reads, 1, k - 1) \o SubSeq(reads, k + 1, Len(reads))
    /\ lastFile' = IF outcome = "ok" THEN lastFile ELSE FileAction("failed", {})
    /\ UNCHANGED <<seed, generating, posted, handled>>
    /\ UNCHANGED <<chvars, wkvars, fvars>>

\* the rest of changeFileName, once read k has delivered the file's bytes
changeFileNameResume(k, outcome) ==
    /\ k \in 1..Len(reads)
    /\ LET fileBytes == reads[k]
       IN  CASE outcome = "ok" ->
                  /\ store' = Item(bytesToBase64(fileBytes))
                  /\ updateFileButton(store')
                  /\ thrown' = "none"
                  /\ UNCHANGED status
             [] outcome = QuotaExceededError ->
                  \* setItem stored nothing; removeItem drops the old record
                  /\ store' = NoItem
                  /\ status' = StatusOf("Could not store ROM: localStorage quota exceeded",
                                        0, "danger")
                  /\ updateFileButton(store')
                  /\ thrown' = "none"
             [] OTHER ->
                  \* throw e: the handler ends before updateFileButton
                  /\ thrown' = outcome
                  /\ UNCHANGED <<store, status, fileButton, generateDisabled>>
    /\ reads' = SubSeq(reads, 1, k - 1) \o SubSeq(reads, k + 1, Len(reads))
    /\ lastFile' = IF outcome = "ok" THEN lastFile ELSE FileAction("failed", {})
    /\ UNCHANGED <<seed, generating, posted, handled>>
    /\ UNCHANGED <<chvars, wkvars, fvars>>

clearFileName ==
    /\ status' = NoStatus
    /\ store' = NoItem
    /\ updateFileButton(store')
    /\ thrown' = "none"
    /\ lastFile' = FileAction("clear", {})
    /\ UNCHANGED <<seed, generating, reads>>
    /\ UNCHANGED <<chvars, wkvars, posted, handled, fvars>>

newSeed(random) ==
    /\ status' = NoStatus
    /\ seed' = ToDecimal(random)
    /\ thrown' = "none"
    /\ UNCHANGED <<store, fileButton, generateDisabled, generating, reads>>
    /\ UNCHANGED <<chvars, wkvars, posted, handled, lastFile, fvars>>

\* the user edits the #seed field (no handler runs)
typeSeed(text) ==
    /\ seed' = text
    /\ UNCHANGED <<store, status, fileButton, generateDisabled, generating, reads>>
    /\ UNCHANGED <<chvars, wkvars, hvars, fvars>>

\* GenerateCheck without the test of the seed (lines 192-196 left out)
GenerateCheckNoSeedTest(items, seedValue) ==
    IF items = NoItem THEN "No ROM selected"
    ELSE IF ~isValidROM(base64ToBytes(getItem(items))) THEN "Invalid ROM selected"
    ELSE "ok"

\* GenerateCheck with the seed tested before the stored image
GenerateCheckSeedFirst(items, seedValue) ==
    IF ~integerRegexTest(Trim(seedValue)) THEN "Seed must be a number"
    ELSE IF items = NoItem THEN "No ROM selected"
    ELSE IF ~isValidROM(base64ToBytes(getItem(items))) THEN "Invalid ROM selected"
    ELSE "ok"

\* the first check of generate() that fails, or "ok"
GenerateCheck(items, seedValue) ==
    IF items = NoItem THEN "No ROM selected"
    ELSE IF ~isValidROM(base64ToBytes(getItem(items))) THEN "Invalid ROM selected"
    ELSE IF ~integerRegexTest(Trim(seedValue)) THEN "Seed must be a number"
    ELSE "ok"

\* the Map generate() posts (id is the model's name for the request)
RandomizerArgs(id, romBytes, seedString, itemDuplication, spoilerLog) ==
    [id |-> id, romBytes |-> romBytes, seedString |-> seedString,
     itemDuplication |-> itemDuplication, spoilerLog |-> spoilerLog]

\* generateBufferOps with the image decoded once by an earlier handler and
\* kept for later submissions instead of being decoded in generate()
generateBufferOpsCached(items, seedValue) ==
    IF items = NoItem THEN <<>>
    ELSE LET romBytes == base64ToBytes(getItem(items))
         IN  <<[op |-> "read", buffer |-> "cached", value |-> romBytes]>>
                \o (IF GenerateCheck(items, seedValue) = "ok"
                       THEN <<[op |-> "transfer", buffer |-> "cached", value |-> romBytes]>>
                       ELSE <<>>)

\* what one call of generate() does with the buffer behind its local
\* romBytes, in order: base64ToBytes allocates and fills it (line 186),
\* isValidROM reads it (line 187), postMessage transfers it (line 210;
\* storing the reference in the Map, line 206, reads nothing).  The
\* function returns right after the transfer.
generateBufferOps(items, seedValue) ==
    IF items = NoItem THEN <<>>
    ELSE LET romBytes == base64ToBytes(getItem(items))
         IN  <<[op |-> "decode", buffer |-> "romBytes", value |-> romBytes],
               [op |-> "read", buffer |-> "romBytes", value |-> romBytes]>>
                \o (IF GenerateCheck(items, seedValue) = "ok"
                       THEN <<[op |-> "transfer", buffer |-> "romBytes", value |-> romBytes]>>
                       ELSE <<>>)

\* whether a click on #generate reaches the handler
GenerateClickable == ~generateDisabled

\* a click on #generate; the two flags are the checkboxes as the user left them
generate(itemDuplication, spoilerLog) ==
    /\ GenerateClickable
    /\ LET check == GenerateCheck(store, seed)
       IN  IF check # "ok"
             THEN /\ status' = StatusOf(check, 0, "danger")
                  /\ UNCHANGED <<generateDisabled, generating, toWorker, posted>>
             ELSE /\ posted < MaxJobs
                  /\ generateDisabled' = TRUE
                  /\ generating' = TRUE
                  /\ status' = StatusOf("Generation in progress, this may take some time...",
                                        0, "")
                  /\ toWorker' = Append(toWorker,
                        RandomizerArgs(posted + 1, base64ToBytes(getItem(store)), Trim(seed),
                                       itemDuplication, spoilerLog))
                  /\ posted' = posted + 1
    /\ thrown' = "none"
    /\ UNCHANGED <<store, seed, fileButton, reads, toUI, handled, lastFile>>
    /\ UNCHANGED <<wkvars, fvars>>

\* downloadSeed without line 238: the control stays as generate() left it
downloadSeedStaysDisabled ==
    /\ toUI # <<>>
    /\ LET generatedSeed == Head(toUI)
       IN  /\ status' = StatusOf("Generated a winnable seed on attempt #",
                                 generatedSeed.attemptNumber, "success")
           /\ handled' = Append(handled, generatedSeed.id)
    /\ generating' = FALSE
    /\ toUI' = Tail(toUI)
    /\ thrown' = "none"
    /\ UNCHANGED <<store, seed, fileButton, generateDisabled, reads, toWorker, posted, lastFile>>
    /\ UNCHANGED <<wkvars, fvars>>

\* the worker's "message" event reaches the UI
downloadSeed ==
    /\ toUI # <<>>
    /\ LET generatedSeed == Head(toUI)
       IN  /\ status' = StatusOf("Generated a winnable seed on attempt #",
                                 generatedSeed.attemptNumber, "success")
           /\ handled' = Append(handled, generatedSeed.id)
    /\ generating' = FALSE
    /\ generateDisabled' = FALSE
    /\ toUI' = Tail(toUI)
    /\ thrown' = "none"
    /\ UNCHANGED <<store, seed, fileButton, reads, toWorker, posted, lastFile>>
    /\ UNCHANGED <<wkvars, fvars>>

-----------------------------------------------------------------------------
(* web_worker.js: loadPyodideAndFiles *)

scriptFileName == <<"s","h","a","d","o","w","r","u","n","_","r","a","n","d","o","m","i","z","e","r",".","p","y">>
itemStateFileName == <<"i","n","i","t","i","a","l","_","i","t","e","m","_","s","t","a","t","e",".","b","i","n">>
romFileName == <<"s","h","a","d","o","w","r","u","n",".","s","f","c">>

\* the runtime before loadPyodide() has returned it
NoPyodide == [fs |-> {}, rom |-> {}, mockArgv |-> <<>>]

\* loadPyodide run again after a failure, as if a rejected bootstrap were
\* started anew
loadPyodideRetried(ok) ==
    /\ boot \in {"loadPyodide", "failed"}
    /\ boot' = IF ok THEN "fetchScript" ELSE "failed"
    /\ thrown' = IF ok THEN thrown ELSE "BootstrapError"
    /\ UNCHANGED <<waiting, pyodide, posted, handled, lastFile>>
    /\ UNCHANGED <<uivars, chvars, fvars>>

\* self.pyodide = await loadPyodide()
loadPyodide(ok) ==
    /\ boot = "loadPyodide"
    /\ boot' = IF ok THEN "fetchScript" ELSE "failed"
    /\ thrown' = IF ok THEN thrown ELSE "BootstrapError"
    /\ UNCHANGED <<waiting, pyodide, posted, handled, lastFile>>
    /\ UNCHANGED <<uivars, chvars, fvars>>

\* await fetchFile(fileName): fetch, check response.ok, FS.writeFile
fetchFile(at, fileName, next, ok) ==
    /\ boot = at
    /\ IF ok
         THEN /\ pyodide' = [pyodide EXCEPT !.fs = @ \cup {fileName}]
              /\ boot' = next
              /\ UNCHANGED thrown
         ELSE /\ boot' = "failed"
              /\ thrown' = "BootstrapError"
              /\ UNCHANGED pyodide
    /\ UNCHANGED <<waiting, posted, handled, lastFile>>
    /\ UNCHANGED <<uivars, chvars, fvars>>

\* runRandomizer without `await pyodideReadyPromise`: it goes on at once
pyodideReadyUnawaited == TRUE

\* pyodideReadyPromise is fulfilled
pyodideReady == boot = "ready"

\* pyodideReadyPromise is rejected
pyodideFailed == boot = "failed"

-----------------------------------------------------------------------------
(* web_worker.js: runRandomizer *)

ArgDryRun == <<"-","-","d","r","y","-","r","u","n">>
ArgSeed == <<"-","-","s","e","e","d">>
ArgAllowItemDuplication == <<"-","-","a","l","l","o","w","-","i","t","e","m","-","d","u","p","l","i","c","a","t","i","o","n">>
ArgSpoilerLog == <<"-","-","s","p","o","i","l","e","r","-","l","o","g">>
ArgEndOfOptions == <<"-","-">>

\* mockArgv with `--seed <text>` pushed for the empty string too
mockArgvSeedAlways(seedString, itemDuplication, spoilerLog) ==
    <<scriptFileName>>
        \o <<ArgDryRun>>
        \o <<ArgSeed, seedString>>
        \o (IF itemDuplication THEN <<ArgAllowItemDuplication>> ELSE <<>>)
        \o (IF spoilerLog THEN <<ArgSpoilerLog>> ELSE <<>>)
        \o <<ArgEndOfOptions>>
        \o <<romFileName>>

\* the argument vector built in lines 36-49; `if (seedString)` is true of
\* every non-empty string
mockArgv(seedString, itemDuplication, spoilerLog) ==
    <<scriptFileName>>
        \o <<ArgDryRun>>
        \o (IF seedString # <<>> THEN <<ArgSeed, seedString>> ELSE <<>>)
        \o (IF itemDuplication THEN <<ArgAllowItemDuplication>> ELSE <<>>)
        \o (IF spoilerLog THEN <<ArgSpoilerLog>> ELSE <<>>)
        \o <<ArgEndOfOptions>>
        \o <<romFileName>>

\* index of the last "." of str, 0 when there is none
LastDot(str) ==
    IF \E k \in 1..Len(str) : str[k] = "."
        THEN CHOOSE k \in 1..Len(str) :
                /\ str[k] = "."
                /\ \A m \in (k + 1)..Len(str) : str[m] # "."
        ELSE 0

\* newBasename with `if basename:` for `if basename and extension:`: a name
\* that ends in "." loses the dot
newBasenameStemOnly(outFileName) ==
    LET d        == LastDot(outFileName)
        basename == IF d = 0 THEN <<>> ELSE SubSeq(outFileName, 1, d - 1)
    IN  IF basename # <<>> THEN basename ELSE outFileName

\* basename, dot, extension = outFileName.rpartition("."), then the choice
\* of newBasename
newBasename(outFileName) ==
    LET d         == LastDot(outFileName)
        basename  == IF d = 0 THEN <<>> ELSE SubSeq(outFileName, 1, d - 1)
        extension == IF d = 0 THEN outFileName
                     ELSE SubSeq(outFileName, d + 1, Len(outFileName))
    IN  IF basename # <<>> /\ extension # <<>> THEN basename ELSE outFileName

ExtSfc == <<".","s","f","c">>
ExtTxt == <<".","t","x","t">>
ExtZip == <<".","z","i","p">>

\* the archive the embedded Python builds: two entries.  The script is
\* opaque: what it produces is named by what it was given (the image file
\* in the runtime's filesystem and sys.argv).
ZipOf(outFileName, rom, argv) ==
    << [name |-> newBasename(outFileName) \o ExtSfc,
        data |-> [of |-> "module.romBytes", rom |-> rom, argv |-> argv]],
       [name |-> newBasename(outFileName) \o ExtTxt,
        data |-> [of |-> "capturedOutput", rom |-> rom, argv |-> argv]] >>

\* the Map runRandomizer posts (id names the request it answers)
GeneratedSeed(id, outFileName, attemptNumber, rom, argv) ==
    [id |-> id,
     zipBytes |-> ZipOf(outFileName, rom, argv),
     zipFileName |-> newBasename(outFileName) \o ExtZip,
     attemptNumber |-> attemptNumber]

\* what the external script can do: raise (or leave a binding out), or
\* choose an output name and report an attempt count
OutFileNames == { <<"f","o","o",".","s","f","c">> }

ScriptOutcomes ==
    {[error |-> TRUE, outFileName |-> <<>>, attemptNumber |-> 0]}
        \cup {[error |-> FALSE, outFileName |-> n, attemptNumber |-> a] :
                n \in OutFileNames, a \in 1..MaxAttempt}

\* a "message" event reaches the worker: runRandomizer runs up to
\* `await pyodideReadyPromise`.  The continuation of an earlier call on a
\* settled promise runs before the next event is taken.
runRandomizer ==
    /\ toWorker # <<>>
    /\ (pyodideReady \/ pyodideFailed) => waiting = <<>>
    /\ waiting' = Append(waiting, Head(toWorker))
    /\ toWorker' = Tail(toWorker)
    /\ UNCHANGED <<toUI, boot, pyodide>>
    /\ UNCHANGED <<uivars, hvars, fvars>>

\* runRandomizerResume taking the call that arrived last instead of the one
\* that has waited longest
runRandomizerResumeNewestFirst(script) ==
    /\ waiting # <<>>
    /\ pyodideReady
    /\ LET randomizerArgs == waiting[Len(waiting)]
           argv == mockArgv(randomizerArgs.seedString,
                            randomizerArgs.itemDuplication,
                            randomizerArgs.spoilerLog)
       IN  /\ pyodide' = [fs       |-> pyodide.fs \cup {romFileName},
                          rom      |-> {randomizerArgs.romBytes},
                          mockArgv |-> argv]
           /\ IF script.error
                THEN /\ thrown' = "PythonError"
                     /\ UNCHANGED toUI
                ELSE /\ toUI' = Append(toUI,
                            GeneratedSeed(randomizerArgs.id, script.outFileName,
                                          script.attemptNumber, pyodide'.rom,
                                          pyodide'.mockArgv))
                     /\ thrown' = "none"
    /\ waiting' = SubSeq(waiting, 1, Len(waiting) - 1)
    /\ UNCHANGED <<toWorker, boot, posted, handled, lastFile>>
    /\ UNCHANGED <<uivars, fvars>>

\* runRandomizerResume with a script error taking the worker down with it:
\* no later call gets past the await
runRandomizerResumePoisoned(script) ==
    /\ waiting # <<>>
    /\ pyodideReady
    /\ LET randomizerArgs == Head(waiting)
           argv == mockArgv(randomizerArgs.seedString,
                            randomizerArgs.itemDuplication,
                            randomizerArgs.spoilerLog)
       IN  /\ pyodide' = [fs       |-> pyodide.fs \cup {romFileName},
                          rom      |-> {randomizerArgs.romBytes},
                          mockArgv |-> argv]
           /\ IF script.error
                THEN /\ thrown' = "PythonError"
                     /\ boot' = "failed"
                     /\ UNCHANGED toUI
                ELSE /\ toUI' = Append(toUI,
                            GeneratedSeed(randomizerArgs.id, script.outFileName,
                                          script.attemptNumber, pyodide'.rom,
                                          pyodide'.mockArgv))
                     /\ thrown' = "none"
                     /\ UNCHANGED boot
    /\ waiting' = Tail(waiting)
    /\ UNCHANGED <<toWorker, posted, handled, lastFile>>
    /\ UNCHANGED <<uivars, fvars>>

\* the rest of runRandomizer after the await, for the call that has waited longest
runRandomizerResume(script) ==
    /\ waiting # <<>>
    /\ pyodideReady
    /\ LET randomizerArgs == Head(waiting)
           argv == mockArgv(randomizerArgs.seedString,
                            randomizerArgs.itemDuplication,
                            randomizerArgs.spoilerLog)
       IN  /\ pyodide' = [fs       |-> pyodide.fs \cup {romFileName},
                          rom      |-> {randomizerArgs.romBytes},
                          mockArgv |-> argv]
           /\ IF script.error
                THEN \* pyodide.runPython throws: nothing is posted
                     /\ thrown' = "PythonError"
                     /\ UNCHANGED toUI
                ELSE /\ toUI' = Append(toUI,
                            GeneratedSeed(randomizerArgs.id, script.outFileName,
                                          script.attemptNumber, pyodide'.rom,
                                          pyodide'.mockArgv))
                     /\ thrown' = "none"
    /\ waiting' = Tail(waiting)
    /\ UNCHANGED <<toWorker, boot, posted, handled, lastFile>>
    /\ UNCHANGED <<uivars, fvars>>

\* the await throws: pyodideReadyPromise was rejected
runRandomizerReject ==
    /\ waiting # <<>>
    /\ pyodideFailed
    /\ waiting' = Tail(waiting)
    /\ thrown' = "BootstrapError"
    /\ UNCHANGED <<toWorker, toUI, boot, pyodide, posted, handled, lastFile>>
    /\ UNCHANGED <<uivars, fvars>>

-----------------------------------------------------------------------------
(* The program *)

\* The state once main() has run and the page is shown: the store holds
\* what an earlier visit left, updateFileButton has run, newSeed has been
\* clicked, the status is blank, and the worker has just been created.
MainInit ==
    /\ store \in {NoItem} \cup {Item(bytesToBase64(f)) : f \in Files}
    /\ seed \in {ToDecimal(r) : r \in RandomSeeds}
    /\ status = NoStatus
    /\ fileButton = FileButtonFor(store)
    /\ generateDisabled = GenerateDisabledFor(store)
    /\ generating = FALSE
    /\ reads = <<>>
    /\ toWorker = <<>>
    /\ toUI = <<>>
    /\ boot = "loadPyodide"
    /\ waiting = <<>>
    /\ pyodide = NoPyodide
    /\ posted = 0
    /\ handled = <<>>
    /\ thrown = "none"
    /\ lastFile = FileAction("none", {})

Init ==
    /\ MainInit
    /\ fpc = "off"
    /\ farg = <<>>
    /\ fret = <<>>

Next ==
    \/ \E fileList \in {<<>>} \cup {<<f>> : f \in Files} : changeFileName(fileList)
    \/ \E k \in 1..MaxReads, outcome \in SetItemOutcomes : changeFileNameResume(k, outcome)
    \/ clearFileName
    \/ \E random \in RandomSeeds : newSeed(random)
    \/ \E text \in SeedTexts : typeSeed(text)
    \/ \E flags \in FlagChoices : generate(flags[1], flags[2])
    \/ downloadSeed
    \/ \E ok \in BOOLEAN : loadPyodide(ok)
    \/ \E ok \in BOOLEAN : fetchFile("fetchScript", scriptFileName, "fetchItemState", ok)
    \/ \E ok \in BOOLEAN : fetchFile("fetchItemState", itemStateFileName, "ready", ok)
    \/ runRandomizer
    \/ \E script \in ScriptOutcomes : runRandomizerResume(script)
    \/ runRandomizerReject

Spec == Init /\ [][Next]_vars

\* The session in which every bootstrap step succeeds and the script never
\* raises.  The worker's event loop takes every message and resumes every
\* settled await, the fetches finish, and the UI's event loop delivers
\* every result: weak fairness of those steps.  Nothing is assumed of the
\* user.
OkOutcomes == {script \in ScriptOutcomes : ~script.error}

NextOk ==
    \/ \E fileList \in {<<>>} \cup {<<f>> : f \in Files} : changeFileName(fileList)
    \/ \E k \in 1..MaxReads, outcome \in SetItemOutcomes : changeFileNameResume(k, outcome)
    \/ clearFileName
    \/ \E random \in RandomSeeds : newSeed(random)
    \/ \E text \in SeedTexts : typeSeed(text)
    \/ \E flags \in FlagChoices : generate(flags[1], flags[2])
    \/ downloadSeed
    \/ loadPyodide(TRUE)
    \/ fetchFile("fetchScript", scriptFileName, "fetchItemState", TRUE)
    \/ fetchFile("fetchItemState", itemStateFileName, "ready", TRUE)
    \/ runRandomizer
    \/ \E script \in OkOutcomes : runRandomizerResume(script)

FairSpec ==
    /\ Init
    /\ [][NextOk]_vars
    /\ WF_vars(loadPyodide(TRUE))
    /\ WF_vars(fetchFile("fetchScript", scriptFileName, "fetchItemState", TRUE))
    /\ WF_vars(fetchFile("fetchItemState", itemStateFileName, "ready", TRUE))
    /\ WF_vars(runRandomizer)
    /\ WF_vars(\E script \in OkOutcomes : runRandomizerResume(script))
    /\ WF_vars(downloadSeed)

\* The session with every outcome left open: a bootstrap step may fail and
\* the script may raise.  Both event loops still take every message and
\* resume every settled await, and every fetch ends one way or the other.
FairSpecAnyOutcome ==
    /\ Init
    /\ [][Next]_vars
    /\ WF_vars(\E ok \in BOOLEAN : loadPyodide(ok))
    /\ WF_vars(\E ok \in BOOLEAN :
                 fetchFile("fetchScript", scriptFileName, "fetchItemState", ok))
    /\ WF_vars(\E ok \in BOOLEAN :
                 fetchFile("fetchItemState", itemStateFileName, "ready", ok))
    /\ WF_vars(runRandomizer)
    /\ WF_vars(\E script \in ScriptOutcomes : runRandomizerResume(script))
    /\ WF_vars(runRandomizerReject)
    /\ WF_vars(downloadSeed)

-----------------------------------------------------------------------------
(* Harnesses for the pure functions: the input is drawn in the initial     *)
(* state, the actions apply the function; the program itself is parked in  *)
(* the state of a first visit.                                             *)

Parked ==
    /\ store = NoItem
    /\ seed = ToDecimal(7)
    /\ status = NoStatus
    /\ fileButton = FileButtonFor(NoItem)
    /\ generateDisabled = GenerateDisabledFor(NoItem)
    /\ generating = FALSE
    /\ reads = <<>>
    /\ toWorker = <<>>
    /\ toUI = <<>>
    /\ boot = "loadPyodide"
    /\ waiting = <<>>
    /\ pyodide = NoPyodide
    /\ posted = 0
    /\ handled = <<>>
    /\ thrown = "none"
    /\ lastFile = FileAction("none", {})

StayParked == UNCHANGED <<uivars, chvars, wkvars, hvars>>

(* ---- the codec ---- *)

CodecBytes == {0, 90, 165, 255}

RECURSIVE ByteSeqsUpTo(_)
ByteSeqsUpTo(n) ==
    IF n = 0 THEN {<<>>}
    ELSE LET shorter == ByteSeqsUpTo(n - 1)
         IN  shorter \cup {Append(q, b) : q \in shorter, b \in CodecBytes}

CodecInputs == {MkBytes(q) : q \in ByteSeqsUpTo(MaxLen)} \cup Files

InitCodec ==
    /\ Parked
    /\ fpc = "codec"
    /\ farg \in CodecInputs
    /\ fret = <<>>

CodecEncode ==
    /\ fpc = "codec"
    /\ fret' = [text |-> bytesToBase64(farg)]
    /\ fpc' = "encoded"
    /\ UNCHANGED farg
    /\ StayParked

CodecDecode ==
    /\ fpc = "encoded"
    /\ fret' = [text |-> fret.text, bytes |-> base64ToBytes(fret.text)]
    /\ fpc' = "decoded"
    /\ UNCHANGED farg
    /\ StayParked

NextCodec == CodecEncode \/ CodecDecode

SpecCodec == InitCodec /\ [][NextCodec]_vars

(* ---- the validator ---- *)

FieldOffsets == (NAME_START..(NAME_END - 1)) \cup {CHECKSUM_LO, CHECKSUM_HI}

OtherOffsets ==
    {0, NAME_START - 1, NAME_END, CHECKSUM_LO - 1, CHECKSUM_HI + 1, ROM_LENGTH - 1}

\* the byte GoodROM holds at offset o, and three values to put there instead
ByteChoices(o) ==
    {ByteAt(GoodROM, o), (ByteAt(GoodROM, o) + 1) % 256, 0, 255}

RomLengths ==
    {ROM_LENGTH, ROM_LENGTH - 1, ROM_LENGTH + 1, ROM_LENGTH + 512, NAME_END, 0}

\* GoodROM with byte o1 set to v1, byte o2 (outside both fields) set to v2,
\* then cut or zero-extended to n bytes
RomInputsAt(o1) ==
    {[o1 |-> o1, v1 |-> v1, o2 |-> o2, v2 |-> v2, n |-> n,
      rom |-> Resize(Patch(Patch(GoodROM, o1, v1), o2, v2), n)] :
        v1 \in ByteChoices(o1), o2 \in OtherOffsets \ {o1}, v2 \in {0, 7},
        n \in RomLengths}

RomInputs == UNION {RomInputsAt(o1) : o1 \in FieldOffsets \cup OtherOffsets}

InitRom ==
    /\ Parked
    /\ fpc = "rom"
    /\ farg \in RomInputs
    /\ fret = <<>>

RomValidate ==
    /\ fpc = "rom"
    /\ fret' = [valid |-> isValidROM(farg.rom)]
    /\ fpc' = "validated"
    /\ UNCHANGED farg
    /\ StayParked

NextRom == RomValidate

SpecRom == InitRom /\ [][NextRom]_vars

(* ---- the argument vector ---- *)

ArgvInputs ==
    {[seedString |-> t, itemDuplication |-> d, spoilerLog |-> l] :
        t \in SeedTexts, d \in BOOLEAN, l \in BOOLEAN}

InitArgv ==
    /\ Parked
    /\ fpc = "argv"
    /\ farg \in ArgvInputs
    /\ fret = <<>>

ArgvBuild ==
    /\ fpc = "argv"
    /\ fret' = mockArgv(farg.seedString, farg.itemDuplication, farg.spoilerLog)
    /\ fpc' = "built"
    /\ UNCHANGED farg
    /\ StayParked

NextArgv == ArgvBuild

SpecArgv == InitArgv /\ [][NextArgv]_vars

(* ---- the result packager ---- *)

NameChars == {"a", ".", "s"}

RECURSIVE NamesUpTo(_)
NamesUpTo(n) ==
    IF n = 0 THEN {<<>>}
    ELSE LET shorter == NamesUpTo(n - 1)
         IN  shorter \cup {Append(q, c) : q \in shorter, c \in NameChars}

\* the names the script can leave in module.outFileName: every text over
\* NameChars up to MaxNameLen, and five longer ones
ZipInputs ==
    NamesUpTo(MaxNameLen)
        \cup { <<"f","o","o",".","s","f","c">>, <<"f","o","o">>, <<".","s","f","c">>,
               <<"f","o","o",".">>, <<"a",".","b",".","s","f","c">> }

InitZip ==
    /\ Parked
    /\ fpc = "zip"
    /\ farg \in ZipInputs
    /\ fret = <<>>

\* lines 73-97 for a job whose image and argument vector are those of the
\* seed "7" with no flag set
ZipBuild ==
    /\ fpc = "zip"
    /\ fret' = GeneratedSeed(1, farg, 1, {GoodROM}, mockArgv(<<"7">>, FALSE, FALSE))
    /\ fpc' = "zipped"
    /\ UNCHANGED farg
    /\ StayParked

NextZip == ZipBuild

SpecZip == InitZip /\ [][NextZip]_vars

-----------------------------------------------------------------------------
(* Claims about the pure functions *)

Range(f) == {f[x] : x \in DOMAIN f}

CountOf(text, ch) == Cardinality({j \in DOMAIN text.nz : text.nz[j] = ch})

\* C8: for every byte sequence x, base64ToBytes(bytesToBase64(x)) = x; the
\* text has 4*ceil(len(x)/3) characters, all from the 64-symbol alphabet or
\* the padding symbol, and padding stands only in the last one or two
\* positions of the final group (as many as the last group lacks bytes).
C8_RoundTrip ==
    /\ fpc \in {"encoded", "decoded"} =>
         LET t == fret.text
             n == farg.length
         IN  /\ t.length = (IF n % 3 = 0 THEN 4 * (n \div 3) ELSE 4 * (n \div 3) + 4)
             /\ DOMAIN t.nz \subseteq 0..(t.length - 1)
             /\ Range(t.nz) \subseteq Range(alphabet)
             /\ \A j \in DOMAIN t.nz : t.nz[j] = "=" => j >= t.length - 2
             /\ CountOf(t, "=") = (3 - (n % 3)) % 3
    /\ fpc = "decoded" => fret.bytes = farg

\* a sequence whose last group is padded has been encoded and decoded
C8_Witness ==
    /\ fpc = "decoded"
    /\ farg.length % 3 = 1
    /\ farg.nz # <<>>
    /\ CountOf(fret.text, "=") = 2
    /\ fret.bytes = farg

\* C9: isValidROM is true exactly when the sequence is 1,048,576 bytes long,
\* bytes 0x7FC0..0x7FD4 are "SHADOWRUN" and 12 spaces, and bytes
\* 0x7FDE/0x7FDF read little-endian are 0xF834; a change of one byte of
\* either field or of the length makes it false, a change of any other byte
\* leaves it as it was.
C9_Validator ==
    fpc = "validated" =>
        LET r == farg.rom
            nameOk == \A k \in 0..20 : ByteAt(r, NAME_START + k) = goodName[k + 1]
            sumOk == ByteAt(r, CHECKSUM_LO) + 256 * ByteAt(r, CHECKSUM_HI) = goodChecksum
            fieldChanged == farg.o1 \in FieldOffsets /\ farg.v1 # ByteAt(GoodROM, farg.o1)
            lengthChanged == farg.n # ROM_LENGTH
        IN  /\ fret.valid = (r.length = ROM_LENGTH /\ nameOk /\ sumOk)
            /\ (fieldChanged \/ lengthChanged) => ~fret.valid
            /\ (~fieldChanged /\ ~lengthChanged) => fret.valid

\* an image with two bytes outside both fields changed has been accepted
C9_Witness ==
    /\ fpc = "validated"
    /\ fret.valid
    /\ farg.o1 \in OtherOffsets /\ farg.v1 # ByteAt(GoodROM, farg.o1)
    /\ farg.v2 # ByteAt(GoodROM, farg.o2)

\* the options the claim lists, in its order
ClaimedOptions(a) ==
    (IF a.seedString # <<>> THEN <<ArgSeed, a.seedString>> ELSE <<>>)
        \o (IF a.itemDuplication THEN <<ArgAllowItemDuplication>> ELSE <<>>)
        \o (IF a.spoilerLog THEN <<ArgSpoilerLog>> ELSE <<>>)

\* C10 as stated: the vector is the script name, the dry-run flag, the
\* options, then the image's path, and nothing else.
C10_ArgvAsClaimed ==
    fpc = "built" =>
        fret = <<scriptFileName, ArgDryRun>> \o ClaimedOptions(farg) \o <<romFileName>>

\* C10, amended: the vector is the script name, the dry-run flag, `--seed
\* <text>` iff the text is non-empty, `--allow-item-duplication` iff that
\* flag is set, `--spoiler-log` iff that flag is set, the end-of-options
\* marker `--`, then the image's path, and nothing else.
C10_ArgvWithEndOfOptions ==
    fpc = "built" =>
        fret = <<scriptFileName, ArgDryRun>> \o ClaimedOptions(farg)
                    \o <<ArgEndOfOptions, romFileName>>

\* a vector has been built from a non-empty seed with both flags set
C10_Witness ==
    /\ fpc = "built"
    /\ farg.seedString # <<>>
    /\ farg.itemDuplication /\ farg.spoilerLog
    /\ Len(fret) = 8

\* the basename as the claim words it: the part before the final "." when
\* that part and the part after it are both non-empty, the whole name
\* otherwise
ClaimedBasename(name) ==
    IF \E k \in 2..(Len(name) - 1) :
            name[k] = "." /\ \A m \in (k + 1)..Len(name) : name[m] # "."
        THEN LET k == CHOOSE k \in 2..(Len(name) - 1) :
                        name[k] = "." /\ \A m \in (k + 1)..Len(name) : name[m] # "."
             IN  SubSeq(name, 1, k - 1)
        ELSE name

\* the five names the claim works out
ClaimedExamples ==
    { << <<"f","o","o",".","s","f","c">>, <<"f","o","o">> >>,
      << <<"f","o","o">>, <<"f","o","o">> >>,
      << <<".","s","f","c">>, <<".","s","f","c">> >>,
      << <<"f","o","o",".">>, <<"f","o","o",".">> >>,
      << <<"a",".","b",".","s","f","c">>, <<"a",".","b">> >> }

\* C11: for every output name the script chooses, the archive is named
\* <basename>.zip and holds exactly two entries, <basename>.sfc (the
\* produced image) then <basename>.txt (the captured log), where basename
\* is the part of the name before its final "." when both that part and the
\* part after it are non-empty and the whole name otherwise; "foo.sfc"
\* gives "foo", "foo" gives "foo", ".sfc" gives ".sfc", "foo." gives "foo."
\* and "a.b.sfc" gives "a.b".
C11_Archive ==
    fpc = "zipped" =>
        LET b == ClaimedBasename(farg)
        IN  /\ fret.zipFileName = b \o <<".","z","i","p">>
            /\ Len(fret.zipBytes) = 2
            /\ fret.zipBytes[1].name = b \o <<".","s","f","c">>
            /\ fret.zipBytes[1].data.of = "module.romBytes"
            /\ fret.zipBytes[2].name = b \o <<".","t","x","t">>
            /\ fret.zipBytes[2].data.of = "capturedOutput"
            /\ \A ex \in ClaimedExamples : farg = ex[1] => b = ex[2]

\* an archive has been built for a name that ends in ".": the name is kept
\* whole
C11_Witness ==
    /\ fpc = "zipped"
    /\ farg = <<"f","o","o",".">>
    /\ fret.zipFileName = <<"f","o","o",".",".","z","i","p">>
    /\ Len(fret.zipBytes) = 2

-----------------------------------------------------------------------------
(* Claims about the program *)

\* an image as the validator is documented to accept it
AcceptableImage(r) ==
    /\ r.length = ROM_LENGTH
    /\ \A k \in 0..20 : ByteAt(r, NAME_START + k) = goodName[k + 1]
    /\ ByteAt(r, CHECKSUM_LO) + 256 * ByteAt(r, CHECKSUM_HI) = goodChecksum

StoredImageAcceptable ==
    store # NoItem /\ AcceptableImage(base64ToBytes(getItem(store)))

Spaces(n) == [k \in 1..n |-> " "]

AllDigits(text) == Len(text) >= 1 /\ \A k \in 1..Len(text) : text[k] \in Digits

\* text is digits, one or more decimal digits, between runs of spaces
TrimsTo(text, digits) ==
    \E i \in 0..Len(text), j \in 0..Len(text) :
        text = Spaces(i) \o digits \o Spaces(j)

SeedAcceptable(text) ==
    \E i \in 1..Len(text), j \in 1..Len(text) :
        i <= j /\ TrimsTo(text, SubSeq(text, i, j)) /\ AllDigits(SubSeq(text, i, j))

\* C1 as stated: at most one request is outstanding (posted, its result not
\* yet handled by downloadSeed) at any time.
C1_AtMostOneOutstanding == posted - Len(handled) <= 1

\* C2 as stated: the submission control is disabled whenever the store
\* holds no record or a record that decodes to an invalid image.
C2_DisabledUnlessValid == ~StoredImageAcceptable => generateDisabled

\* C3: every request generate() posts carries the bytes decoded from the
\* record in the store at that moment, which the validator accepts, and a
\* seed string that is the trimmed seed input and is one or more decimal
\* digits; no request in flight is otherwise.
C3_RequestsWellFormed ==
    /\ [](\A m \in Range(toWorker) \cup Range(waiting) :
            AcceptableImage(m.romBytes) /\ AllDigits(m.seedString))
    /\ [][Len(toWorker') > Len(toWorker) =>
            LET m == toWorker'[Len(toWorker')]
            IN  /\ StoredImageAcceptable
                /\ m.romBytes = base64ToBytes(getItem(store))
                /\ bytesToBase64(m.romBytes) = getItem(store)
                /\ AllDigits(m.seedString)
                /\ TrimsTo(seed, m.seedString)]_vars

\* a request has been posted whose seed string is the seed input less its
\* leading space
C3_Witness ==
    /\ toWorker # <<>>
    /\ seed = <<" ", "7">>
    /\ toWorker[Len(toWorker)].seedString = <<"7">>

\* the message of the first check that fails, in the claim's order
FirstFailure ==
    IF store = NoItem THEN "No ROM selected"
    ELSE IF ~StoredImageAcceptable THEN "Invalid ROM selected"
    ELSE IF ~SeedAcceptable(seed) THEN "Seed must be a number"
    ELSE "ok"

\* C4: when generate() runs and a precondition fails, nothing is posted,
\* the in-flight state is not entered (the control stays enabled for the
\* next attempt), the store is unchanged, and the status is the message of
\* the first failing check: no record, invalid record, seed not all digits
\* after trimming.
C4_FailedSubmission ==
    [][(/\ status' # NoStatus /\ UNCHANGED <<store, seed, reads, toUI, wkvars>>
        /\ \E flags \in FlagChoices : generate(flags[1], flags[2])
        /\ FirstFailure # "ok") =>
            /\ toWorker' = toWorker
            /\ posted' = posted
            /\ generating' = generating
            /\ generateDisabled' = FALSE
            /\ store' = store
            /\ status' = [message |-> FirstFailure, attempt |-> 0, textClass |-> "danger"]]_vars

\* generate() has run with an invalid record in the store and refused it
C4_Witness ==
    /\ status = [message |-> "Invalid ROM selected", attempt |-> 0, textClass |-> "danger"]
    /\ store # NoItem
    /\ ~generateDisabled

\* C5: when the write of the encoded record fails for lack of room, the
\* store afterwards holds no record, the UI shows "no image" with the
\* control disabled and the quota status; any other exception is thrown on,
\* leaving store and UI as they were; a write that succeeds stores the
\* whole encoding of the chosen file, whatever failed before.
C5_QuotaFailure ==
    [][\A k \in (IF Len(reads') < Len(reads) THEN 1..Len(reads) ELSE {}) :
        /\ changeFileNameResume(k, QuotaExceededError) =>
              /\ store' = NoItem
              /\ fileButton' = [class |-> "btn-warning", innerText |-> "No ROM selected"]
              /\ generateDisabled' = TRUE
              /\ status' = [message |-> "Could not store ROM: localStorage quota exceeded",
                            attempt |-> 0, textClass |-> "danger"]
              /\ thrown' = "none"
        /\ changeFileNameResume(k, "RangeError") =>
              /\ thrown' = "RangeError"
              /\ UNCHANGED <<store, status, fileButton, generateDisabled>>
        /\ changeFileNameResume(k, "ok") =>
              /\ store' # NoItem
              /\ base64ToBytes(getItem(store')) = reads[k]
              /\ thrown' = "none"]_vars

\* after a request was posted, a write has failed for lack of room: the
\* store is empty, the control disabled, the quota status shown
C5_Witness ==
    /\ status.message = "Could not store ROM: localStorage quota exceeded"
    /\ store = NoItem
    /\ generateDisabled
    /\ posted > 0

\* a job step has touched the runtime
JobTouchedRuntime ==
    romFileName \in pyodide.fs \/ pyodide.rom # {} \/ pyodide.mockArgv # <<>>

BootOrder ==
    { <<"loadPyodide", "fetchScript">>, <<"fetchScript", "fetchItemState">>,
      <<"fetchItemState", "ready">>,
      <<"loadPyodide", "failed">>, <<"fetchScript", "failed">>,
      <<"fetchItemState", "failed">> }

\* C6: no job step touches the runtime before the bootstrap has completed
\* (both resources written), also when the request arrived earlier; the
\* bootstrap's steps run once, in order, and receiving or running a request
\* never moves it.
C6_BootstrapAwaited ==
    /\ [](JobTouchedRuntime =>
            /\ boot = "ready"
            /\ {scriptFileName, itemStateFileName} \subseteq pyodide.fs)
    /\ [][/\ boot' # boot => <<boot, boot'>> \in BootOrder
          /\ (waiting' # waiting \/ toWorker' # toWorker) => boot' = boot]_vars

\* a request has been received and waits while the bootstrap is still
\* fetching; the runtime is untouched
C6_Witness ==
    /\ boot = "fetchItemState"
    /\ waiting # <<>>
    /\ ~JobTouchedRuntime

Ids(msgs) == {msgs[k].id : k \in 1..Len(msgs)}

\* C7: when the bootstrap succeeds and the script does not raise, every
\* request posted is eventually answered and its result handled; each
\* request has at most one result, handled at most once and never without
\* a request; handling it leaves the in-flight state (spinner hidden, text
\* restored, control enabled) and shows the success status with that
\* result's attempt count.
C7_EveryRequestAnswered ==
    /\ \A id \in 1..MaxJobs : (posted >= id) ~> (id \in Range(handled))
    /\ [](/\ Range(handled) \cup Ids(toUI) \subseteq 1..posted
          /\ Cardinality(Range(handled)) = Len(handled)
          /\ Cardinality(Ids(toUI)) = Len(toUI)
          /\ Range(handled) \cap Ids(toUI) = {})
    /\ [][handled' # handled =>
            /\ toUI # <<>>
            /\ handled' = Append(handled, Head(toUI).id)
            /\ generating' = FALSE
            /\ generateDisabled' = FALSE
            /\ status' = [message |-> "Generated a winnable seed on attempt #",
                          attempt |-> Head(toUI).attemptNumber,
                          textClass |-> "success"]]_vars

\* the second request's result has been handled, with the attempt count it
\* reported
C7_Witness ==
    /\ Len(handled) = 2
    /\ status.message = "Generated a winnable seed on attempt #"
    /\ status.attempt = 2
    /\ ~generating

\* the requests that have ended without a result: posted, and neither on
\* the way to the worker, nor waiting in it, nor answered
Dropped ==
    (1..posted) \ (Ids(toWorker) \cup Ids(waiting) \cup Ids(toUI) \cup Range(handled))

\* C12: once a bootstrap step has failed the bootstrap stays failed (it is
\* not run again), no request writes to the runtime or posts a result for
\* the rest of the session, and every request, received before or after
\* the failure, ends at the await without a response.
C12_BootstrapFatal ==
    /\ [](boot = "failed" =>
            /\ toUI = <<>>
            /\ handled = <<>>
            /\ ~JobTouchedRuntime)
    /\ [][boot = "failed" =>
            /\ boot' = "failed"
            /\ pyodide' = pyodide
            /\ toUI' = <<>>
            /\ waiting' # waiting /\ waiting # <<>> =>
                 /\ waiting' = Tail(waiting)
                 /\ thrown' = "BootstrapError"]_vars
    /\ \A id \in 1..MaxJobs :
         (boot = "failed" /\ posted >= id) ~> (id \in Dropped)

\* the bootstrap failed at the second fetch; one request that was waiting
\* and one that came later have both ended with nothing posted
C12_Witness ==
    /\ boot = "failed"
    /\ scriptFileName \in pyodide.fs
    /\ Dropped = {1, 2}
    /\ thrown = "BootstrapError"
    /\ generating

\* C13: a job whose script raises (or lacks a binding) ends there: nothing
\* is posted for it, it is not run again and is never answered later; the
\* worker stays ready, and the requests after it are taken in turn and
\* each ends with its own result or its own failure.
C13_JobErrorFatalToJobOnly ==
    /\ [][/\ Dropped \subseteq Dropped'
          /\ (boot = "ready" /\ Dropped' # Dropped) =>
               /\ waiting # <<>>
               /\ Dropped' = Dropped \cup {Head(waiting).id}
               /\ waiting' = Tail(waiting)
               /\ toUI' = toUI
               /\ thrown' = "PythonError"
               /\ boot' = "ready"
          /\ (boot = "ready" /\ waiting' # waiting /\ waiting # <<>>
                /\ Dropped' = Dropped) =>
               /\ toUI' # toUI
               /\ toUI'[Len(toUI')].id = Head(waiting).id]_vars
    /\ \A id \in 1..MaxJobs :
         (boot = "ready" /\ posted >= id) ~> (id \in Dropped \/ id \in Range(handled))

\* the first job failed and the second, run after it, was answered and its
\* result handled
C13_Witness ==
    /\ boot = "ready"
    /\ Dropped = {1}
    /\ handled = <<2>>
    /\ status.message = "Generated a winnable seed on attempt #"

C15_LastFileActionWins ==
    reads = <<>> =>
        /\ lastFile.action = "clear" => store = NoItem
        /\ lastFile.action = "select" =>
             \A f \in lastFile.file : store = Item(bytesToBase64(f))
        /\ fileButton = FileButtonFor(store)

\* the ids along the way of a request, oldest first: results handled,
\* results on the way to the UI, calls waiting in the worker, requests on
\* the way to the worker
IdsInOrder(msgs) == [k \in 1..Len(msgs) |-> msgs[k].id]

Pipeline == handled \o IdsInOrder(toUI) \o IdsInOrder(waiting) \o IdsInOrder(toWorker)

\* C16: the worker runs one job at a time and in arrival order: the step
\* that writes a job's image file is the step that ends the job (its result
\* posted, or its failure), it is always the job that has waited longest,
\* the result carries that job's id and is built from that job's image and
\* from the argument vector of that job's seed and flags, and results and
\* requests stay in the order the requests were posted.
C16_JobsDoNotInterleave ==
    /\ [](\A i, j \in 1..Len(Pipeline) : i < j => Pipeline[i] < Pipeline[j])
    /\ [][/\ (boot = "ready" /\ (pyodide' # pyodide \/ (toUI' # toUI /\ handled' = handled))) =>
               /\ waiting # <<>>
               /\ waiting' = Tail(waiting)
               /\ pyodide'.rom = {Head(waiting).romBytes}
               /\ pyodide'.mockArgv = mockArgv(Head(waiting).seedString,
                                               Head(waiting).itemDuplication,
                                               Head(waiting).spoilerLog)
               /\ toUI' # toUI \/ thrown' = "PythonError"
          /\ (toUI' # toUI /\ handled' = handled) =>
               /\ boot = "ready"
               /\ Len(toUI') = Len(toUI) + 1
               /\ SubSeq(toUI', 1, Len(toUI)) = toUI
               /\ LET generatedSeed == toUI'[Len(toUI')]
                      job == Head(waiting)
                  IN  /\ generatedSeed.id = job.id
                      /\ \A k \in 1..Len(generatedSeed.zipBytes) :
                            /\ generatedSeed.zipBytes[k].data.rom = {job.romBytes}
                            /\ generatedSeed.zipBytes[k].data.argv =
                                 mockArgv(job.seedString, job.itemDuplication,
                                          job.spoilerLog)]_vars

\* two requests with different seeds were received and both results are on
\* their way to the UI, in request order, each built from its own seed
C16_Witness ==
    /\ Len(toUI) = 2
    /\ toUI[1].id = 1
    /\ toUI[2].id = 2
    /\ toUI[1].zipBytes[1].data.argv[4] # toUI[2].zipBytes[1].data.argv[4]

\* C17: every request generate() posts carries a non-empty seed text, all
\* digits, equal to the trimmed content of the seed field; so every
\* argument vector the worker builds has `--seed` and then exactly that
\* text in third and fourth place, and the branch without `--seed` is
\* never taken.
C17_SeedAlwaysPassed ==
    /\ [](/\ \A k \in 1..Len(toWorker) : AllDigits(toWorker[k].seedString)
          /\ \A k \in 1..Len(waiting) : AllDigits(waiting[k].seedString)
          /\ pyodide.mockArgv # <<>> =>
               /\ pyodide.mockArgv[3] = ArgSeed
               /\ AllDigits(pyodide.mockArgv[4]))
    /\ [][/\ posted' # posted =>
               /\ toWorker' # <<>>
               /\ toWorker'[Len(toWorker')].seedString = Trim(seed)
               /\ TrimsTo(seed, toWorker'[Len(toWorker')].seedString)
          /\ (boot = "ready" /\ waiting # <<>> /\ waiting' = Tail(waiting)) =>
               /\ Len(pyodide'.mockArgv) >= 4
               /\ pyodide'.mockArgv[3] = ArgSeed
               /\ pyodide'.mockArgv[4] = Head(waiting).seedString]_vars

\* a seed typed with a leading space was submitted and the worker has
\* built the vector with the trimmed text after `--seed`
C17_Witness ==
    /\ seed = <<" ", "7">>
    /\ posted = 1
    /\ pyodide.mockArgv # <<>>
    /\ pyodide.mockArgv[3] = ArgSeed
    /\ pyodide.mockArgv[4] = <<"7">>

====
